---- MODULE Spec2Model ----
(***************************************************************************)
(* Model of playlist-fetch: the theme matcher (src/src/theme_matcher.py:   *)
(* find_matches_in_text, score_track, expand_keywords_with_synonyms,       *)
(* find_matching_tracks, load_tracks_from_json_files), load_synonyms of    *)
(* scripts/find_theme_tracks.py, fetch_playlist_tracks and                 *)
(* get_user_playlists of src/playlist_fetcher.py, export_playlist_to_json  *)
(* and export_playlists of src/json_export.py, and the fetch and export    *)
(* loops of scripts/export_playlists.py.                                   *)
(* A string is a sequence of one-character strings; a                      *)
(* Python set of strings is a TLA+ set whose iteration order is chosen     *)
(* nondeterministically by the action that calls the function.             *)
(***************************************************************************)
EXTENDS Integers, Sequences, FiniteSets, TLC

VARIABLES
    pc,                   \* which call of the scenario has returned
    text,                 \* find_matches_in_text: the text argument
    keywords,             \* the keywords argument (a set of strings)
    matches,              \* find_matches_in_text: the returned list
    track,                \* score_track: the track argument
    location_multipliers, \* score_track: the weights argument
    scored,               \* score_track: the outcome (result or KeyError)
    synonyms,             \* the synonyms argument
    expanded,             \* expand_keywords_with_synonyms: first result
    expanded_twice,       \* expand applied to its own result
    tracks,               \* find_matching_tracks: the tracks argument
    min_score,            \* find_matching_tracks: the threshold argument
    matching_tracks,      \* find_matching_tracks: result of the first call
    matching_tracks_2,    \* find_matching_tracks: result of the second call
    data_dir,             \* load_tracks_from_json_files: the directory on disk
    loaded,               \* load_tracks_from_json_files: the outcome
    synonym_file,         \* load_synonyms: the file on disk
    loaded_synonyms,      \* load_synonyms: the outcome
    playlist,             \* fetch_playlist_tracks: the playlist on the service
    offset,               \* fetch_playlist_tracks: offset of the next request
    fetched,              \* fetch_playlist_tracks: the tracks list
    requested,            \* the offsets requested from the service, in order
    request_failed,       \* whether a request to the service has thrown
    files,                \* export: the files of the output directory
    files_before,         \* export: the files before the last call
    export_call,          \* export_playlist_to_json: arguments of the last call
    export_result,        \* export_playlist_to_json: result of the last call
    export_calls,         \* export_playlist_to_json: number of calls made
    playlists_data,       \* export script: the playlists of the user
    script_index,         \* export script: position of the first loop
    playlists_with_tracks,\* export script: the playlists to export
    skipped_count,        \* export script: playlists skipped by the pre-check
    fetch_failures,       \* ids of the playlists whose fetch hit an API error
    reported_errors,      \* ids the script reported as errors
    exported_files        \* export script: the paths export_playlists returned

matchVars  == <<text, matches>>
scoreVars  == <<track, location_multipliers, scored>>
expandVars == <<expanded, expanded_twice>>
rankVars   == <<tracks, min_score, matching_tracks, matching_tracks_2>>
themeVars == <<keywords, synonyms, matchVars, scoreVars, expandVars, rankVars>>
loadVars    == <<data_dir, loaded>>
synFileVars == <<synonym_file, loaded_synonyms>>
fetchVars   == <<playlist, offset, fetched, requested, request_failed>>
exportVars  == <<files, files_before, export_call, export_result, export_calls>>
scriptVars  == <<playlists_data, script_index, playlists_with_tracks,
                 skipped_count, fetch_failures, reported_errors, exported_files>>
ioVars == <<loadVars, synFileVars, fetchVars, exportVars, scriptVars>>
vars == <<pc, themeVars, ioVars>>

----------------------------------------------------------------------------
(* Bounds of the model.                                                    *)

MaxTextLen  == 3    \* longest text given to find_matches_in_text
MaxSynonyms == 2    \* longest synonym list of a synonym map
MaxTracks   == 3    \* longest corpus given to find_matching_tracks
MaxMinScore == 2    \* largest min_score given to find_matching_tracks
MaxFiles    == 3    \* most entries of a data directory
MaxTotal    == 201  \* most items of a playlist on the service
MaxCalls    == 2    \* most calls of export_playlist_to_json in a run
MaxPlaylists == 2   \* most playlists of the user in a run of the export script
MaxListed   == 101  \* most playlists of the user on the service

----------------------------------------------------------------------------
(* Characters and strings.                                                 *)

Alphabet == {"a", "b", "B", "_", "-"}

\* str.lower() on one character
Lower(c) == IF c = "B" THEN "b" ELSE c

\* str.lower()
LowerStr(s) == [i \in 1..Len(s) |-> Lower(s[i])]

\* the code point of a character, which Python's string comparison uses
Code(c) ==
    CASE c = "-" -> 45
      [] c = "B" -> 66
      [] c = "_" -> 95
      [] c = "a" -> 97
      [] c = "b" -> 98

\* str.isalnum() on one character
IsAlnum(c) == c \in {"a", "b", "B"}

\* the regular expression class \w: alphanumerics and the underscore
IsWordChar(c) == IsAlnum(c) \/ c = "_"

\* Python's s < t on strings: lexicographic by code point
StrLess(s, t) ==
    \E i \in 1..(Len(t)) :
        /\ \A j \in 1..(i - 1) : j <= Len(s) /\ s[j] = t[j]
        /\ i - 1 <= Len(s)
        /\ (i > Len(s) \/ Code(s[i]) < Code(t[i]))

StrLeq(s, t) == s = t \/ StrLess(s, t)

\* every sequence over S of length at most n
SeqsUpTo(S, n) == UNION {[1..k -> S] : k \in 0..n}

\* every enumeration order of a finite set
Orders(S) ==
    {o \in [1..Cardinality(S) -> S] : \A i, j \in DOMAIN o : o[i] = o[j] => i = j}

\* sorted(S) for a set of strings
RECURSIVE sorted(_)
sorted(S) ==
    IF S = {} THEN <<>>
    ELSE LET m == CHOOSE x \in S : \A y \in S : StrLeq(x, y)
         IN  <<m>> \o sorted(S \ {m})

\* the elements of a list, as a set
Elems(seq) == {seq[i] : i \in DOMAIN seq}

----------------------------------------------------------------------------
(* find_matches_in_text                                                    *)

\* the regular expression assertion \b at offset p (0..Len(s)) of s
WordBoundaryAt(s, p) ==
    LET before == p >= 1 /\ IsWordChar(s[p])
        after  == p < Len(s) /\ IsWordChar(s[p + 1])
    IN  before # after

\* the escaped keyword matches s at index i, ignoring case (re.IGNORECASE)
LiteralAt(keyword, s, i) ==
    /\ i + Len(keyword) - 1 <= Len(s)
    /\ \A j \in 1..Len(keyword) : Lower(s[i + j - 1]) = Lower(keyword[j])

\* re.search(r'\b' + re.escape(keyword) + r'\b', text_lower, re.IGNORECASE)
WordBoundarySearch(keyword, text_lower) ==
    \E i \in 1..(Len(text_lower) + 1) :
        /\ WordBoundaryAt(text_lower, i - 1)
        /\ LiteralAt(keyword, text_lower, i)
        /\ WordBoundaryAt(text_lower, i - 1 + Len(keyword))

\* keyword in text_lower
SubstringIn(keyword, text_lower) ==
    \E i \in 1..(Len(text_lower) + 1) :
        /\ i + Len(keyword) - 1 <= Len(text_lower)
        /\ \A j \in 1..Len(keyword) : text_lower[i + j - 1] = keyword[j]

\* a slip: 'if' for 'elif', so a full-word match is recorded both ways
ClassifyKeywordBothWays(keyword, text_lower) ==
    (IF WordBoundarySearch(keyword, text_lower) THEN <<<<keyword, TRUE>>>> ELSE <<>>)
    \o (IF SubstringIn(keyword, text_lower) THEN <<<<keyword, FALSE>>>> ELSE <<>>)

\* the body of the loop over keywords: the entries one keyword appends
ClassifyKeyword(keyword, text_lower) ==
    IF WordBoundarySearch(keyword, text_lower) THEN <<<<keyword, TRUE>>>>
    ELSE IF SubstringIn(keyword, text_lower) THEN <<<<keyword, FALSE>>>>
    ELSE <<>>

\* a slip: the loop stops at the first keyword that matches
RECURSIVE MatchLoopFirstOnly(_, _)
MatchLoopFirstOnly(text_lower, order) ==
    IF order = <<>> THEN <<>>
    ELSE IF ClassifyKeyword(Head(order), text_lower) # <<>>
         THEN ClassifyKeyword(Head(order), text_lower)
         ELSE MatchLoopFirstOnly(text_lower, Tail(order))

\* for keyword in keywords: ..., with the set iterated in the order given
RECURSIVE MatchLoop(_, _)
MatchLoop(text_lower, order) ==
    IF order = <<>> THEN <<>>
    ELSE ClassifyKeyword(Head(order), text_lower) \o MatchLoop(text_lower, Tail(order))

find_matches_in_text(txt, order) ==
    IF txt = <<>> THEN <<>>
    ELSE MatchLoop(LowerStr(txt), order)

----------------------------------------------------------------------------
(* score_track                                                             *)

Fields == {"name", "artist", "album"}

\* an optional argument: None, or a value
None == [none |-> TRUE]
Some(v) == [none |-> FALSE, value |-> v]

\* a dict literal is the list of its (key, value) items in insertion order
DefaultMultipliers == <<<<"name", 3>>, <<"artist", 2>>, <<"album", 1>>>>

\* a slip: a placeholder text, not '', stands in for an absent field
GetPlaceholder(trk, field_name) ==
    IF field_name \in DOMAIN trk THEN trk[field_name] ELSE <<"a">>

\* track.get(field_name, '')
Get(trk, field_name) == IF field_name \in DOMAIN trk THEN trk[field_name] ELSE <<>>

\* the accumulators of score_track before the loop over the fields
InitialAccumulators ==
    [ total_score       |-> 0,
      matched_keywords  |-> {},
      location_matches  |-> [f \in Fields |-> <<>>],
      full_word_matches |-> {},
      raised            |-> FALSE ]

\* a slip: a full-word match earns the substring points
PointsFlat(is_full_word, multiplier) == 1 * multiplier

\* a slip: only a full-word match earns points
PointsFullWordOnly(is_full_word, multiplier) ==
    IF is_full_word THEN 2 * multiplier ELSE 0

\* the points of one entry: 2 x multiplier for a full word, 1 x otherwise
Points(is_full_word, multiplier) ==
    IF is_full_word THEN 2 * multiplier ELSE 1 * multiplier

\* for keyword, is_full_word in matches: ...
\* location_matches[field_name] raises KeyError for a field it has no key for
RECURSIVE EntryLoop(_, _, _, _)
EntryLoop(acc, field_name, multiplier, ms) ==
    IF ms = <<>> \/ acc.raised THEN acc
    ELSE LET keyword      == Head(ms)[1]
             is_full_word == Head(ms)[2]
         IN  IF field_name \notin DOMAIN acc.location_matches
             THEN [acc EXCEPT !.raised = TRUE]
             ELSE EntryLoop(
                    [acc EXCEPT
                       !.matched_keywords = @ \cup {keyword},
                       !.location_matches[field_name] = Append(@, keyword),
                       !.full_word_matches =
                           IF is_full_word THEN @ \cup {keyword} ELSE @,
                       !.total_score = @ + Points(is_full_word, multiplier)],
                    field_name, multiplier, Tail(ms))

\* for field_name, multiplier in location_multipliers.items(): ...
RECURSIVE FieldLoop(_, _, _, _)
FieldLoop(acc, items, trk, order) ==
    IF items = <<>> \/ acc.raised THEN acc
    ELSE LET field_name  == Head(items)[1]
             multiplier  == Head(items)[2]
             field_value == Get(trk, field_name)
         IN  IF field_value = <<>>
             THEN FieldLoop(acc, Tail(items), trk, order)
             ELSE FieldLoop(
                    EntryLoop(acc, field_name, multiplier,
                              find_matches_in_text(field_value, order)),
                    Tail(items), trk, order)

\* a slip: the fields without a match keep their empty list in 'locations'
MatchDetailsAllFields(acc) ==
    [ matches           |-> sorted(acc.matched_keywords),
      locations         |-> acc.location_matches,
      full_word_matches |-> sorted(acc.full_word_matches),
      score             |-> acc.total_score ]

\* the match_details dict built from the accumulators
MatchDetails(acc) ==
    [ matches           |-> sorted(acc.matched_keywords),
      locations         |-> [f \in {g \in DOMAIN acc.location_matches :
                                        acc.location_matches[g] # <<>>}
                               |-> acc.location_matches[f]],
      full_word_matches |-> sorted(acc.full_word_matches),
      score             |-> acc.total_score ]

\* the outcome of score_track: KeyError, or (total_score, match_details)
score_track(trk, order, multipliers_arg) ==
    LET items == IF multipliers_arg.none THEN DefaultMultipliers
                 ELSE multipliers_arg.value
        acc   == FieldLoop(InitialAccumulators, items, trk, order)
    IN  IF acc.raised
        THEN [raised |-> TRUE, score |-> 0, match_details |-> <<>>]
        ELSE [raised |-> FALSE, score |-> acc.total_score,
              match_details |-> MatchDetails(acc)]

----------------------------------------------------------------------------
(* expand_keywords_with_synonyms                                           *)

\* a slip: the synonym list is looked up under the keyword as given
ExpandOneRawKey(keyword, syn) ==
    {LowerStr(keyword)}
    \cup (IF keyword \in DOMAIN syn
          THEN {LowerStr(syn[keyword][i]) : i \in DOMAIN syn[keyword]}
          ELSE {})

\* a slip: the synonyms are added as written, not lowercased
ExpandOneRawSynonyms(keyword, syn) ==
    {LowerStr(keyword)}
    \cup (IF LowerStr(keyword) \in DOMAIN syn
          THEN Elems(syn[LowerStr(keyword)])
          ELSE {})

\* a slip: a keyword that has synonyms is replaced by them
ExpandOneSynonymsOnly(keyword, syn) ==
    LET keyword_lower == LowerStr(keyword)
    IN  IF keyword_lower \in DOMAIN syn
        THEN {LowerStr(syn[keyword_lower][i]) : i \in DOMAIN syn[keyword_lower]}
        ELSE {keyword_lower}

\* what one iteration of the loop over the keywords adds to 'expanded'
ExpandOne(keyword, syn) ==
    LET keyword_lower == LowerStr(keyword)
    IN  {keyword_lower}
        \cup (IF keyword_lower \in DOMAIN syn
              THEN {LowerStr(syn[keyword_lower][i]) : i \in DOMAIN syn[keyword_lower]}
              ELSE {})

\* for keyword in keywords: ..., over the list of keywords given
RECURSIVE expand_keywords_with_synonyms(_, _)
expand_keywords_with_synonyms(keyword_list, syn) ==
    IF keyword_list = <<>> THEN {}
    ELSE ExpandOne(Head(keyword_list), syn)
         \cup expand_keywords_with_synonyms(Tail(keyword_list), syn)

----------------------------------------------------------------------------
(* find_matching_tracks                                                    *)

\* a slip: without a synonym map the keywords are used as written
ExpandedKeywordsRaw(kws, synonyms_arg) ==
    IF ~synonyms_arg.none /\ DOMAIN synonyms_arg.value # {}
    THEN expand_keywords_with_synonyms(CHOOSE o \in Orders(kws) : TRUE,
                                       synonyms_arg.value)
    ELSE kws

\* lines 184-187: the expanded keywords; list(keywords) is some order of the
\* set, and the result, a set, does not depend on it
ExpandedKeywords(kws, synonyms_arg) ==
    IF ~synonyms_arg.none /\ DOMAIN synonyms_arg.value # {}
    THEN expand_keywords_with_synonyms(CHOOSE o \in Orders(kws) : TRUE,
                                       synonyms_arg.value)
    ELSE {LowerStr(k) : k \in kws}

\* a slip: '>' for '>='
KeepStrict(score, threshold) == score > threshold

\* if score >= min_score
Keep(score, threshold) == score >= threshold

\* the loop over the tracks: the (track, match_details) pairs kept, each with
\* the index of its track object in the input list
RECURSIVE ScoreLoop(_, _, _, _)
ScoreLoop(trks, i, order, threshold) ==
    IF i > Len(trks) THEN <<>>
    ELSE LET r == score_track(trks[i], order, None)
         IN  (IF Keep(r.score, threshold)
              THEN <<[track |-> trks[i], match_details |-> r.match_details,
                      input_index |-> i]>>
              ELSE <<>>)
             \o ScoreLoop(trks, i + 1, order, threshold)

\* a slip: the name is compared as written, not lowercased
NameKeyRaw(x) == Get(x.track, "name")

\* x[0].get('name', '').lower()
NameKey(x) == LowerStr(Get(x.track, "name"))

\* the sort key (-score, name.lower()) of x is smaller than that of y
KeyLess(x, y) ==
    \/ x.match_details.score > y.match_details.score
    \/ /\ x.match_details.score = y.match_details.score
       /\ StrLess(NameKey(x), NameKey(y))

\* a slip: a sort that is not stable, equal keys come out in reverse order
RECURSIVE SortByKeyTiesReversed(_)
SortByKeyTiesReversed(seq) ==
    IF seq = <<>> THEN <<>>
    ELSE LET n == Len(seq)  x == seq[n]
             before == SortByKeyTiesReversed(SubSeq(seq, 1, n - 1))
             k == Cardinality({j \in DOMAIN before : KeyLess(before[j], x)})
         IN  SubSeq(before, 1, k) \o <<x>> \o SubSeq(before, k + 1, Len(before))

\* list.sort(key=...): a stable sort, here by insertion from the left
RECURSIVE SortByKey(_)
SortByKey(seq) ==
    IF seq = <<>> THEN <<>>
    ELSE LET n      == Len(seq)
             x      == seq[n]
             before == SortByKey(SubSeq(seq, 1, n - 1))
             k      == Cardinality({j \in DOMAIN before : ~KeyLess(x, before[j])})
         IN  SubSeq(before, 1, k) \o <<x>> \o SubSeq(before, k + 1, Len(before))

\* find_matching_tracks, with the expanded set iterated in the order given
find_matching_tracks(trks, order, threshold) ==
    SortByKey(ScoreLoop(trks, 1, order, threshold))

\* the objects passed to find_matching_tracks as the call leaves them

\* a slip: the score loop marks the track it has scored
TrackAfterScoringMarked(trk) ==
    [f \in DOMAIN trk \cup {"matched"} |->
        IF f = "matched" THEN <<"1">> ELSE trk[f]]

\* score_track only reads the track, with track.get(field_name, '')
TrackAfterScoring(trk) == trk

\* 'for track in tracks' iterates the list; the pairs go to a new list,
\* matching_tracks, and it is that list which is sorted in place
TracksAfterCall(trks) == [i \in DOMAIN trks |-> TrackAfterScoring(trks[i])]

\* list(keywords) and the set comprehension build new collections
KeywordsAfterCall(kws) == kws

\* expand_keywords_with_synonyms only reads the map ('in' and indexing) and
\* adds to its own set 'expanded'
SynonymsAfterCall(synonyms_arg) == synonyms_arg

----------------------------------------------------------------------------
(* Inputs of the scenarios.                                                *)

\* the terms the keyword sets are drawn from (lowercase, as the callers pass)
TermPool == {<<"a">>, <<"b">>, <<"a", "b">>, <<"-", "a">>, <<"a", "_">>}

Texts == SeqsUpTo(Alphabet, MaxTextLen)

\* values of the variables a scenario does not use
IdleMatch  == text = <<>> /\ matches = <<>>
IdleScore  == track = <<>> /\ location_multipliers = <<>> /\ scored = <<>>
IdleExpand == expanded = {} /\ expanded_twice = {}
IdleRank   == /\ tracks = <<>> /\ min_score = 0
              /\ matching_tracks = <<>> /\ matching_tracks_2 = <<>>
IdleLoad    == data_dir = <<>> /\ loaded = <<>>
IdleSynFile == synonym_file = <<>> /\ loaded_synonyms = <<>>
IdleFetch   == /\ playlist = <<>> /\ offset = 0 /\ fetched = <<>>
               /\ requested = <<>> /\ request_failed = FALSE
IdleExport  == /\ files = <<>> /\ files_before = <<>> /\ export_call = <<>>
               /\ export_result = <<>> /\ export_calls = 0
IdleScript  == /\ playlists_data = <<>> /\ script_index = 0
               /\ playlists_with_tracks = <<>> /\ skipped_count = 0
               /\ fetch_failures = {} /\ reported_errors = {}
               /\ exported_files = <<>>
IdleIO      == IdleLoad /\ IdleSynFile /\ IdleFetch /\ IdleExport /\ IdleScript
IdleTheme   == /\ keywords = {} /\ synonyms = <<>>
               /\ IdleMatch /\ IdleScore /\ IdleExpand /\ IdleRank

----------------------------------------------------------------------------
(* Scenario: one call of find_matches_in_text.                             *)

InitMatch ==
    /\ pc = "start"
    /\ text \in Texts
    /\ keywords \in SUBSET TermPool
    /\ matches = <<>>
    /\ synonyms = <<>>
    /\ IdleScore /\ IdleExpand /\ IdleRank /\ IdleIO

CallFindMatches ==
    /\ pc = "start"
    /\ \E order \in Orders(keywords) :
           matches' = find_matches_in_text(text, order)
    /\ pc' = "returned"
    /\ UNCHANGED <<text, keywords, synonyms, scoreVars, expandVars, rankVars, ioVars>>

NextMatch == CallFindMatches

SpecMatch == InitMatch /\ [][NextMatch]_vars

----------------------------------------------------------------------------
(* Scenario: one call of score_track.                                      *)

\* the texts a field of a track is drawn from
FieldPool == {<<"a">>, <<"a", "b">>, <<"B", "-", "a">>, <<"_", "a">>}

\* tracks with any subset of the fields, and possibly a playlist tag
ScoredTracks ==
    {t \in UNION {[D -> FieldPool] : D \in SUBSET (Fields \cup {"playlist"})} :
        "playlist" \in DOMAIN t => t["playlist"] = <<"a">>}

MultiplierArgs ==
    { None,
      Some(<<<<"name", 1>>, <<"artist", 1>>, <<"album", 4>>>>),
      Some(<<<<"name", 3>>, <<"artist", 2>>, <<"album", 1>>, <<"playlist", 1>>>>) }

InitScore ==
    /\ pc = "start"
    /\ track \in ScoredTracks
    /\ keywords \in SUBSET TermPool
    /\ location_multipliers \in MultiplierArgs
    /\ scored = <<>>
    /\ synonyms = <<>>
    /\ IdleMatch /\ IdleExpand /\ IdleRank /\ IdleIO

CallScoreTrack ==
    /\ pc = "start"
    /\ \E order \in Orders(keywords) :
           scored' = score_track(track, order, location_multipliers)
    /\ pc' = "returned"
    /\ UNCHANGED <<track, location_multipliers, keywords, synonyms,
                   matchVars, expandVars, rankVars, ioVars>>

NextScore == CallScoreTrack

SpecScore == InitScore /\ [][NextScore]_vars

----------------------------------------------------------------------------
(* Scenario: expand_keywords_with_synonyms, applied once and then again to *)
(* its own result.                                                         *)

ExpandWords == {<<"a">>, <<"B">>, <<"a", "b">>}

SynonymKeys == {<<"a">>, <<"b">>}

SynonymMaps ==
    UNION {[D -> SeqsUpTo(ExpandWords, MaxSynonyms)] : D \in SUBSET SynonymKeys}

InitExpand ==
    /\ pc = "start"
    /\ keywords \in SUBSET ExpandWords
    /\ synonyms \in SynonymMaps
    /\ expanded = {} /\ expanded_twice = {}
    /\ IdleMatch /\ IdleScore /\ IdleRank /\ IdleIO

CallExpand ==
    /\ pc = "start"
    /\ \E keyword_list \in Orders(keywords) :
           expanded' = expand_keywords_with_synonyms(keyword_list, synonyms)
    /\ pc' = "returned"
    /\ UNCHANGED <<keywords, synonyms, expanded_twice,
                   matchVars, scoreVars, rankVars, ioVars>>

CallExpandAgain ==
    /\ pc = "returned"
    /\ \E keyword_list \in Orders(expanded) :
           expanded_twice' = expand_keywords_with_synonyms(keyword_list, synonyms)
    /\ pc' = "returned_twice"
    /\ UNCHANGED <<keywords, synonyms, expanded,
                   matchVars, scoreVars, rankVars, ioVars>>

NextExpand == CallExpand \/ CallExpandAgain

SpecExpand == InitExpand /\ [][NextExpand]_vars

----------------------------------------------------------------------------
(* Scenario: find_matching_tracks, called twice on the same arguments; the *)
(* two calls may iterate the set of terms in different orders.             *)

RankTrackPool ==
    { [name |-> <<"a">>],
      [name |-> <<"B">>],
      [name |-> <<"a", "b">>, artist |-> <<"B">>, album |-> <<"a">>],
      [name |-> <<"b">>, artist |-> <<"a">>],
      [album |-> <<"_", "a">>] }

RankKeywords == {<<"a">>, <<"B">>}

RankSynonyms ==
    { None,
      Some(<<>>),
      Some([k \in {<<"a">>} |-> <<<<"a", "b">>>>]) }

InitRank ==
    /\ pc = "start"
    /\ tracks \in SeqsUpTo(RankTrackPool, MaxTracks)
    /\ keywords \in SUBSET RankKeywords
    /\ synonyms \in RankSynonyms
    /\ min_score \in 0..MaxMinScore
    /\ matching_tracks = <<>> /\ matching_tracks_2 = <<>>
    /\ IdleMatch /\ IdleScore /\ IdleExpand /\ IdleIO

CallFindMatchingTracks ==
    /\ pc = "start"
    /\ \E order \in Orders(ExpandedKeywords(keywords, synonyms)) :
           matching_tracks' = find_matching_tracks(tracks, order, min_score)
    /\ pc' = "returned"
    /\ tracks' = TracksAfterCall(tracks)
    /\ keywords' = KeywordsAfterCall(keywords)
    /\ synonyms' = SynonymsAfterCall(synonyms)
    /\ UNCHANGED <<min_score, matching_tracks_2, matchVars, scoreVars, expandVars, ioVars>>

CallFindMatchingTracksAgain ==
    /\ pc = "returned"
    /\ \E order \in Orders(ExpandedKeywords(keywords, synonyms)) :
           matching_tracks_2' = find_matching_tracks(tracks, order, min_score)
    /\ pc' = "returned_twice"
    /\ tracks' = TracksAfterCall(tracks)
    /\ keywords' = KeywordsAfterCall(keywords)
    /\ synonyms' = SynonymsAfterCall(synonyms)
    /\ UNCHANGED <<min_score, matching_tracks, matchVars, scoreVars, expandVars, ioVars>>

NextRank == CallFindMatchingTracks \/ CallFindMatchingTracksAgain

SpecRank == InitRank /\ [][NextRank]_vars

----------------------------------------------------------------------------
(* load_tracks_from_json_files                                             *)
(*                                                                         *)
(* A directory is a record: whether it exists, and its entries in the      *)
(* order glob enumerates them.  An entry is a file with a content or a     *)
(* subdirectory with children.  A content is unreadable, or text that is   *)
(* not JSON, or text that parses to a JSON value; a JSON value is a record *)
(* tagged with its type.  The outcome of the call is a record: whether an  *)
(* exception left the function, and the list returned otherwise.           *)

JObject(record) == [type |-> "object", fields |-> record]
JList(elements) == [type |-> "list", items |-> elements]
JNumber         == [type |-> "number"]

Unreadable  == [readable |-> FALSE]
InvalidJSON == [readable |-> TRUE, parses |-> FALSE]
JSONText(v) == [readable |-> TRUE, parses |-> TRUE, value |-> v]

File(filename, c)         == [name |-> filename, is_dir |-> FALSE, content |-> c]
Directory(dirname, below) == [name |-> dirname, is_dir |-> TRUE, children |-> below]

JsonSuffix == <<".", "j", "s", "o", "n">>

\* fnmatch of a name against the pattern *.json
MatchesJsonPattern(filename) ==
    /\ Len(filename) >= Len(JsonSuffix)
    /\ SubSeq(filename, Len(filename) - Len(JsonSuffix) + 1, Len(filename)) = JsonSuffix

\* the matching entries of the whole tree below the directory
RECURSIVE GlobRecursive(_)
GlobRecursive(entries) ==
    IF entries = <<>> THEN <<>>
    ELSE LET e == Head(entries)
         IN  (IF MatchesJsonPattern(e.name) THEN <<e>> ELSE <<>>)
             \o (IF e.is_dir THEN GlobRecursive(e.children) ELSE <<>>)
             \o GlobRecursive(Tail(entries))

\* data_path.glob('*.json'): the matching entries directly inside
Glob(entries) ==
    SelectSeq(entries, LAMBDA e : MatchesJsonPattern(e.name))

\* PurePath.stem: the name up to its last dot, unless that dot is the first
\* or the last character or there is none
Stem(filename) ==
    LET dots == {i \in DOMAIN filename : filename[i] = "."}
        last == IF dots = {} THEN 0 ELSE CHOOSE i \in dots : \A j \in dots : j <= i
    IN  IF 1 < last /\ last < Len(filename)
        THEN SubSeq(filename, 1, last - 1)
        ELSE filename

\* the copy keeps a playlist field the record already has
TagTrackKeepExisting(record, playlist_name) ==
    [f \in DOMAIN record \cup {"playlist"} |->
        IF f \in DOMAIN record THEN record[f] ELSE playlist_name]

\* track_copy = track.copy(); track_copy['playlist'] = playlist_name
TagTrack(record, playlist_name) ==
    [f \in DOMAIN record \cup {"playlist"} |->
        IF f = "playlist" THEN playlist_name ELSE record[f]]

\* the loop over the elements of a parsed list: an element that is not an
\* object has no copy() (a number) or takes no item assignment (a list)
RECURSIVE TrackLoop(_, _, _, _)
TrackLoop(playlist_tracks, i, playlist_name, acc) ==
    IF i > Len(playlist_tracks) THEN [exc |-> "none", tracks |-> acc]
    ELSE LET element == playlist_tracks[i]
         IN  IF element.type = "object"
             THEN TrackLoop(playlist_tracks, i + 1, playlist_name,
                            Append(acc, TagTrack(element.fields, playlist_name)))
             ELSE [exc |-> IF element.type = "list" THEN "TypeError"
                           ELSE "AttributeError",
                   tracks |-> acc]

\* the body of the try block for one entry of the listing
LoadFile(json_file, acc) ==
    LET playlist_name == Stem(json_file.name)
    IN  IF json_file.is_dir THEN [exc |-> "IsADirectoryError", tracks |-> acc]
        ELSE IF ~json_file.content.readable
             THEN [exc |-> "PermissionError", tracks |-> acc]
        ELSE IF ~json_file.content.parses
             THEN [exc |-> "JSONDecodeError", tracks |-> acc]
        ELSE IF json_file.content.value.type = "list"
             THEN TrackLoop(json_file.content.value.items, 1, playlist_name, acc)
        ELSE [exc |-> "none", tracks |-> acc]

\* the exception classes that derive from Exception
ExceptionClasses ==
    {"JSONDecodeError", "IsADirectoryError", "PermissionError",
     "TypeError", "AttributeError"}

\* only the first except clause
HandledJSONDecodeErrorOnly(exc) == exc = "JSONDecodeError"

\* except json.JSONDecodeError / except Exception
Handled(exc) == exc = "JSONDecodeError" \/ exc \in ExceptionClasses

\* the loop over the listing
RECURSIVE FileLoop(_, _, _)
FileLoop(json_files, i, acc) ==
    IF i > Len(json_files) THEN [raised |-> FALSE, tracks |-> acc]
    ELSE LET r == LoadFile(json_files[i], acc)
         IN  IF r.exc = "none" \/ Handled(r.exc)
             THEN FileLoop(json_files, i + 1, r.tracks)
             ELSE [raised |-> TRUE, tracks |-> <<>>]

load_tracks_from_json_files(dir) ==
    IF ~dir.exists THEN [raised |-> FALSE, tracks |-> <<>>]
    ELSE FileLoop(Glob(dir.entries), 1, <<>>)

----------------------------------------------------------------------------
(* Scenario: one call of load_tracks_from_json_files.                      *)

JsonName(stem) == stem \o JsonSuffix

\* the records found in playlist files
FileRecords ==
    [ withTag |-> [name |-> <<"a">>, playlist |-> <<"b">>],
      plain   |-> [name |-> <<"b">>],
      full    |-> [name |-> <<"a", "b">>, artist |-> <<"B">>] ]

\* what a file may hold
FileContents ==
    { JSONText(JList(<<JObject(FileRecords.withTag), JObject(FileRecords.plain)>>)),
      JSONText(JList(<<JObject(FileRecords.full)>>)),
      JSONText(JList(<<>>)),
      JSONText(JList(<<JObject(FileRecords.plain), JNumber, JObject(FileRecords.full)>>)),
      JSONText(JObject(FileRecords.plain)),
      JSONText(JNumber),
      InvalidJSON,
      Unreadable }

\* the names of the files that hold any of the contents
JsonFileNames == {JsonName(<<"a">>), JsonName(<<"b">>), JsonName(<<>>)}

\* the entries a directory may have
EntryPool ==
    {File(n, c) : n \in JsonFileNames, c \in FileContents}
    \cup { File(<<"a", ".", "t", "x", "t">>, JSONText(JList(<<JObject(FileRecords.plain)>>))),
           Directory(<<"c">>, <<File(JsonName(<<"a">>),
                                     JSONText(JList(<<JObject(FileRecords.full)>>)))>>),
           Directory(JsonName(<<"c">>), <<>>) }

DistinctNames(entries) ==
    \A i, j \in DOMAIN entries : entries[i].name = entries[j].name => i = j

Listings == {es \in SeqsUpTo(EntryPool, MaxFiles) : DistinctNames(es)}

DataDirs ==
    {[exists |-> FALSE, entries |-> <<>>]}
    \cup {[exists |-> TRUE, entries |-> es] : es \in Listings}

InitLoad ==
    /\ pc = "start"
    /\ data_dir \in DataDirs
    /\ loaded = <<>>
    /\ IdleTheme /\ IdleSynFile /\ IdleFetch /\ IdleExport /\ IdleScript

CallLoadTracks ==
    /\ pc = "start"
    /\ loaded' = load_tracks_from_json_files(data_dir)
    /\ pc' = "returned"
    /\ UNCHANGED <<data_dir, themeVars, synFileVars, fetchVars, exportVars, scriptVars>>

NextLoad == CallLoadTracks

SpecLoad == InitLoad /\ [][NextLoad]_vars

----------------------------------------------------------------------------
(* load_synonyms (src/scripts/find_theme_tracks.py)                        *)
(*                                                                         *)
(* The parsed object of a synonym file is the sequence of its (key, value) *)
(* pairs in file order, which is the order the loop visits them in.  The   *)
(* map returned is a function from its keys.                               *)

JString(str)        == [type |-> "string", value |-> str]
JObjectItems(items) == [type |-> "object", pairs |-> items]

\* synonyms[key_lower] = ...
DictSet(dict, key, value) ==
    [k \in DOMAIN dict \cup {key} |-> IF k = key THEN value ELSE dict[k]]

\* the list is stored as it is in the file
SynonymEntryRaw(values) ==
    IF values.type # "list" THEN [exc |-> "none", entry |-> <<>>]
    ELSE IF \E j \in DOMAIN values.items : values.items[j].type # "string"
         THEN [exc |-> "AttributeError", entry |-> <<>>]
    ELSE [exc |-> "none",
          entry |-> [j \in DOMAIN values.items |-> values.items[j].value]]

\* [v.lower() for v in values] if isinstance(values, list) else []: an
\* element that is not a string has no lower()
SynonymEntry(values) ==
    IF values.type # "list" THEN [exc |-> "none", entry |-> <<>>]
    ELSE IF \E j \in DOMAIN values.items : values.items[j].type # "string"
         THEN [exc |-> "AttributeError", entry |-> <<>>]
    ELSE [exc |-> "none",
          entry |-> [j \in DOMAIN values.items |-> LowerStr(values.items[j].value)]]

\* the loop over synonyms_raw.items()
RECURSIVE SynonymLoop(_, _, _)
SynonymLoop(pairs, i, acc) ==
    IF i > Len(pairs) THEN [exc |-> "none", synonyms |-> acc]
    ELSE LET key_lower == LowerStr(pairs[i][1])
             e         == SynonymEntry(pairs[i][2])
         IN  IF e.exc # "none" THEN [exc |-> e.exc, synonyms |-> acc]
             ELSE SynonymLoop(pairs, i + 1, DictSet(acc, key_lower, e.entry))

\* the body of the try block
ReadSynonyms(content) ==
    IF ~content.readable THEN [exc |-> "PermissionError", synonyms |-> <<>>]
    ELSE IF ~content.parses THEN [exc |-> "JSONDecodeError", synonyms |-> <<>>]
    ELSE IF content.value.type # "object"
         THEN [exc |-> "AttributeError", synonyms |-> <<>>]
    ELSE SynonymLoop(content.value.pairs, 1, <<>>)

load_synonyms(file) ==
    IF ~file.exists THEN [raised |-> FALSE, synonyms |-> <<>>]
    ELSE LET r == ReadSynonyms(file.content)
         IN  IF r.exc = "none" THEN [raised |-> FALSE, synonyms |-> r.synonyms]
             ELSE IF Handled(r.exc) THEN [raised |-> FALSE, synonyms |-> <<>>]
             ELSE [raised |-> TRUE, synonyms |-> <<>>]

----------------------------------------------------------------------------
(* Scenario: one call of load_synonyms.                                    *)

\* the keys of a synonym file: two of them differ by case only
FileKeys == {<<"a">>, <<"b">>, <<"B">>}

\* the values of a synonym file
FileValues ==
    { JList(<<>>),
      JList(<<JString(<<"B">>)>>),
      JList(<<JString(<<"a", "B">>), JString(<<"b">>)>>),
      JList(<<JString(<<"a">>), JNumber>>),
      JNumber,
      JString(<<"a">>) }

DistinctKeys(pairs) ==
    \A i, j \in DOMAIN pairs : pairs[i][1] = pairs[j][1] => i = j

\* the parsed objects: every order of every choice of keys
FileObjects ==
    {JObjectItems(ps) :
        ps \in {q \in SeqsUpTo(FileKeys \X FileValues, Cardinality(FileKeys)) :
                   DistinctKeys(q)}}

SynonymFiles ==
    {[exists |-> FALSE]}
    \cup {[exists |-> TRUE, content |-> c] :
             c \in {Unreadable, InvalidJSON, JSONText(JNumber),
                    JSONText(JList(<<JString(<<"a">>)>>))}
                   \cup {JSONText(o) : o \in FileObjects}}

InitSynFile ==
    /\ pc = "start"
    /\ synonym_file \in SynonymFiles
    /\ loaded_synonyms = <<>>
    /\ IdleTheme /\ IdleLoad /\ IdleFetch /\ IdleExport /\ IdleScript

CallLoadSynonyms ==
    /\ pc = "start"
    /\ loaded_synonyms' = load_synonyms(synonym_file)
    /\ pc' = "returned"
    /\ UNCHANGED <<synonym_file, themeVars, loadVars, fetchVars, exportVars,
                   scriptVars>>

NextSynFile == CallLoadSynonyms

SpecSynFile == InitSynFile /\ [][NextSynFile]_vars

----------------------------------------------------------------------------
(* fetch_playlist_tracks (src/src/playlist_fetcher.py)                     *)
(*                                                                         *)
(* The playlist on the service is its number of items and the positions of *)
(* the items whose track is null.  The loop is modelled one request at a   *)
(* time; a request may throw.                                              *)

limit == 100

NullTrack      == [null |-> TRUE]
TrackObject(i) == [null |-> FALSE, name |-> i]

\* the item at position i of the playlist
ItemAt(pl, i) ==
    [track |-> IF i \in pl.deleted THEN NullTrack ELSE TrackObject(i)]

\* sp.playlist_tracks(playlist_id, limit=lim, offset=off): the items of the
\* page, and the link to the next page when there are items after it
playlist_tracks(pl, lim, off) ==
    LET remaining == IF pl.total > off THEN pl.total - off ELSE 0
        size      == IF remaining < lim THEN remaining ELSE lim
    IN  [items |-> [k \in 1..size |-> ItemAt(pl, off + k)],
         next  |-> IF off + lim < pl.total THEN Some(off + lim) ELSE None]

\* the details also of an item whose track is null
extract_track_details_of_any(track_item) ==
    Some([name |-> IF track_item.track.null THEN 0 ELSE track_item.track.name,
          artist |-> "Unknown Artist",
          album |-> "Unknown Album",
          release_year |-> None])

\* extract_track_details of an item whose track has a name only: the
\* artists, the album and its release date take their defaults
extract_track_details(track_item) ==
    IF track_item.track.null THEN None
    ELSE Some([name |-> track_item.track.name,
               artist |-> "Unknown Artist",
               album |-> "Unknown Album",
               release_year |-> None])

\* for item in items: append the details unless there are none
ItemLoop(items, acc) ==
    LET details == [i \in DOMAIN items |-> extract_track_details(items[i])]
        kept    == SelectSeq(details, LAMBDA track_details : ~track_details.none)
    IN  acc \o [i \in DOMAIN kept |-> kept[i].value]

----------------------------------------------------------------------------
(* Scenario: one call of fetch_playlist_tracks, from the first request.    *)

\* the positions where a track may have been deleted
DeletedPool == {1, 2, 100, 101, 200}

Playlists ==
    {pl \in [total : 0..MaxTotal, deleted : SUBSET DeletedPool] :
        \A i \in pl.deleted : i <= pl.total}

InitFetch ==
    /\ pc = "fetching"
    /\ playlist \in Playlists
    /\ offset = 0
    /\ fetched = <<>>
    /\ requested = <<>>
    /\ request_failed = FALSE
    /\ IdleTheme /\ IdleLoad /\ IdleSynFile /\ IdleExport /\ IdleScript

\* one pass of the loop whose request returns a page
RequestPage ==
    /\ pc = "fetching"
    /\ LET results == playlist_tracks(playlist, limit, offset)
       IN  /\ requested' = Append(requested, offset)
           /\ IF results.items = <<>>
              THEN /\ pc' = "returned"
                   /\ UNCHANGED <<fetched, offset>>
              ELSE /\ fetched' = ItemLoop(results.items, fetched)
                   /\ IF ~results.next.none
                      THEN offset' = offset + limit /\ pc' = "fetching"
                      ELSE offset' = offset /\ pc' = "returned"
    /\ UNCHANGED <<playlist, request_failed,
                   themeVars, loadVars, synFileVars, exportVars, scriptVars>>

\* the exception leaves the function
OnTracksRequestErrorRaise(gathered) == [pc |-> "raised", result |-> <<>>]

\* except Exception: print, break; then return tracks
OnTracksRequestError(gathered) == [pc |-> "returned", result |-> gathered]

\* one pass of the loop whose request throws
RequestFails ==
    /\ pc = "fetching"
    /\ requested' = Append(requested, offset)
    /\ request_failed' = TRUE
    /\ pc' = OnTracksRequestError(fetched).pc
    /\ fetched' = OnTracksRequestError(fetched).result
    /\ UNCHANGED <<playlist, offset,
                   themeVars, loadVars, synFileVars, exportVars, scriptVars>>

NextFetch == RequestPage \/ RequestFails

SpecFetch == InitFetch /\ [][NextFetch]_vars

----------------------------------------------------------------------------
(* sanitize_playlist_name, get_playlist_json_path, export_playlist_to_json *)
(* (src/src/json_export.py)                                                *)
(*                                                                         *)
(* The files of the output directory are a function from paths to file     *)
(* contents.  A playlist is a record with tracks and, usually, a name.     *)

MaxNameLength == 200

\* the characters the first substitution removes
InvalidChars == {"<", ">", ":", "\"", "/", "\\", "|", "?", "*"}

\* re.sub(r'[<>:"/\\|?*]', '', name)
RemoveInvalid(name) == SelectSeq(name, LAMBDA c : c \notin InvalidChars)

\* re.sub(r'[\s-]+', '-', sanitized): each run of spaces and hyphens
\* becomes one hyphen
CollapseRuns(str) ==
    LET hyphened == [i \in DOMAIN str |-> IF str[i] \in {" ", "-"} THEN "-" ELSE str[i]]
        kept     == SelectSeq([i \in DOMAIN str |-> i],
                              LAMBDA i : ~(hyphened[i] = "-" /\ i > 1
                                           /\ hyphened[i - 1] = "-"))
    IN  [k \in DOMAIN kept |-> hyphened[kept[k]]]

\* sanitized.strip('- ')
Strip(str) ==
    LET inner == {i \in DOMAIN str : str[i] \notin {"-", " "}}
    IN  IF inner = {} THEN <<>>
        ELSE SubSeq(str, CHOOSE i \in inner : \A j \in inner : i <= j,
                         CHOOSE i \in inner : \A j \in inner : j <= i)

\* if len(sanitized) > 200: sanitized = sanitized[:200]
Truncate(str) ==
    IF Len(str) > MaxNameLength THEN SubSeq(str, 1, MaxNameLength) ELSE str

DefaultName == <<"p", "l", "a", "y", "l", "i", "s", "t">>

sanitize_playlist_name(name) ==
    LET sanitized == Truncate(Strip(CollapseRuns(RemoveInvalid(name))))
    IN  IF sanitized = <<>> THEN DefaultName ELSE sanitized

\* os.path.join(output_dir, filename)
os_path_join(output_dir, filename) == output_dir \o <<"/">> \o filename

get_playlist_json_path(playlist_name, output_dir) ==
    os_path_join(output_dir, sanitize_playlist_name(playlist_name) \o JsonSuffix)

\* no path is ever found to exist
NothingExists(fs, filepath) == FALSE

\* os.path.exists(filepath)
os_path_exists(fs, filepath) == filepath \in DOMAIN fs

\* str(counter)
RECURSIVE Decimal(_)
Decimal(n) ==
    LET digit(d) == <<"0", "1", "2", "3", "4", "5", "6", "7", "8", "9">>[d + 1]
    IN  IF n < 10 THEN <<digit(n)>>
        ELSE Decimal(n \div 10) \o <<digit(n % 10)>>

\* while os.path.exists(filepath): the next numbered name
RECURSIVE CollisionLoop(_, _, _, _, _)
CollisionLoop(fs, filepath, sanitized_name, output_dir, counter) ==
    IF os_path_exists(fs, filepath)
    THEN CollisionLoop(fs,
                       os_path_join(output_dir,
                                    sanitized_name \o <<"_">> \o Decimal(counter)
                                        \o JsonSuffix),
                       sanitized_name, output_dir, counter + 1)
    ELSE filepath

UnknownName == <<"U", "n", "k", "n", "o", "w", "n">>

\* open(filepath, 'w') and json.dump(tracks, f)
WriteFile(fs, filepath, content) ==
    [p \in DOMAIN fs \cup {filepath} |-> IF p = filepath THEN content ELSE fs[p]]

\* the files after the call and the value returned
export_playlist_to_json(fs, pl, output_dir, skip_existing) ==
    LET playlist_name  == IF "name" \in DOMAIN pl THEN pl["name"] ELSE UnknownName
        sanitized_name == sanitize_playlist_name(playlist_name)
        filepath == CollisionLoop(fs,
                                  os_path_join(output_dir, sanitized_name \o JsonSuffix),
                                  sanitized_name, output_dir, 1)
    IN  IF skip_existing
           /\ os_path_exists(fs, get_playlist_json_path(playlist_name, output_dir))
        THEN [files |-> fs, result |-> None]
        ELSE [files  |-> WriteFile(fs, filepath, pl["tracks"]),
              result |-> Some(filepath)]

----------------------------------------------------------------------------
(* Scenario: calls of export_playlist_to_json on one output directory.     *)

OutputDir == <<"d">>

\* a name longer than the limit, ending in c
LongName(c) == [i \in 1..(MaxNameLength + 1) |-> IF i <= MaxNameLength THEN "a" ELSE c]

\* the playlists exported: each has its own tracks
ExportPlaylists ==
    { [name |-> <<"a">>,               tracks |-> <<1>>],
      [name |-> <<"/", "a", " ">>,     tracks |-> <<2>>],
      [name |-> <<"a", "_", "1">>,     tracks |-> <<3>>],
      [name |-> <<"a", " ", "-", "b">>, tracks |-> <<4>>],
      [name |-> <<"?", "-">>,          tracks |-> <<5>>],
      [name |-> LongName("a"),         tracks |-> <<6>>],
      [name |-> LongName("b"),         tracks |-> <<7>>],
      [tracks |-> <<8>>] }

\* the files that may be in the directory before the first call
ExistingPaths ==
    { os_path_join(OutputDir, <<"a">> \o JsonSuffix),
      os_path_join(OutputDir, <<"a", "_", "1">> \o JsonSuffix),
      os_path_join(OutputDir, DefaultName \o JsonSuffix) }

InitExport ==
    /\ pc = "start"
    /\ \E present \in SUBSET ExistingPaths : files = [p \in present |-> <<0>>]
    /\ files_before = <<>>
    /\ export_call = <<>>
    /\ export_result = <<>>
    /\ export_calls = 0
    /\ IdleTheme /\ IdleLoad /\ IdleSynFile /\ IdleFetch /\ IdleScript

CallExportPlaylist ==
    /\ export_calls < MaxCalls
    /\ \E pl \in ExportPlaylists, skip_existing \in BOOLEAN :
          LET r == export_playlist_to_json(files, pl, OutputDir, skip_existing)
          IN  /\ export_call' = [playlist |-> pl, skip_existing |-> skip_existing]
              /\ files' = r.files
              /\ export_result' = r.result
    /\ files_before' = files
    /\ export_calls' = export_calls + 1
    /\ pc' = "returned"
    /\ UNCHANGED <<themeVars, loadVars, synFileVars, fetchVars, scriptVars>>

NextExport == CallExportPlaylist

SpecExport == InitExport /\ [][NextExport]_vars

----------------------------------------------------------------------------
(* get_user_playlists (src/src/playlist_fetcher.py), one request at a      *)
(* time, on the variables of the fetch: playlist holds the number of       *)
(* playlists of the user, fetched the list gathered.                       *)

playlists_limit == 50

\* sp.current_user_playlists(limit=lim, offset=off)
current_user_playlists(user, lim, off) ==
    LET remaining == IF user.total > off THEN user.total - off ELSE 0
        size      == IF remaining < lim THEN remaining ELSE lim
    IN  [items |-> [k \in 1..size |-> [id |-> off + k]],
         next  |-> IF off + lim < user.total THEN Some(off + lim) ELSE None]

InitUserPlaylists ==
    /\ pc = "listing"
    /\ playlist \in [total : 0..MaxListed, deleted : {{}}]
    /\ offset = 0
    /\ fetched = <<>>
    /\ requested = <<>>
    /\ request_failed = FALSE
    /\ IdleTheme /\ IdleLoad /\ IdleSynFile /\ IdleExport /\ IdleScript

\* one pass of the loop whose request returns a page
RequestPlaylistsPage ==
    /\ pc = "listing"
    /\ LET results == current_user_playlists(playlist, playlists_limit, offset)
       IN  /\ requested' = Append(requested, offset)
           /\ IF results.items = <<>>
              THEN /\ pc' = "listed"
                   /\ UNCHANGED <<fetched, offset>>
              ELSE /\ fetched' = fetched \o results.items
                   /\ IF ~results.next.none
                      THEN offset' = offset + playlists_limit /\ pc' = "listing"
                      ELSE offset' = offset /\ pc' = "listed"
    /\ UNCHANGED <<playlist, request_failed,
                   themeVars, loadVars, synFileVars, exportVars, scriptVars>>

\* the exception leaves the function
OnPlaylistsRequestErrorRaise(gathered) == [pc |-> "raised", result |-> <<>>]

\* except Exception: print, break; then return playlists
OnPlaylistsRequestError(gathered) == [pc |-> "listed", result |-> gathered]

\* one pass of the loop whose request throws
RequestPlaylistsFails ==
    /\ pc = "listing"
    /\ requested' = Append(requested, offset)
    /\ request_failed' = TRUE
    /\ pc' = OnPlaylistsRequestError(fetched).pc
    /\ fetched' = OnPlaylistsRequestError(fetched).result
    /\ UNCHANGED <<playlist, offset,
                   themeVars, loadVars, synFileVars, exportVars, scriptVars>>

NextUserPlaylists == RequestPlaylistsPage \/ RequestPlaylistsFails

\* Scenario: one call of either paging function.
InitPaging == InitFetch \/ InitUserPlaylists

NextPaging == NextFetch \/ NextUserPlaylists

SpecPaging == InitPaging /\ [][NextPaging]_vars

----------------------------------------------------------------------------
(* The export script (src/scripts/export_playlists.py, main) with the      *)
(* functions it calls as whole calls: fetch_playlist_tracks,               *)
(* playlist_json_exists and export_playlists.                              *)

\* the while loop of fetch_playlist_tracks; the request numbered fail_at
\* throws, and the except clause leaves the loop
RECURSIVE FetchLoop(_, _, _, _, _)
FetchLoop(pl, off, acc, request_no, fail_at) ==
    IF ~fail_at.none /\ fail_at.value = request_no
    THEN [raised |-> FALSE, failed |-> TRUE, tracks |-> acc]
    ELSE LET results == playlist_tracks(pl, limit, off)
         IN  IF results.items = <<>>
             THEN [raised |-> FALSE, failed |-> FALSE, tracks |-> acc]
             ELSE IF ~results.next.none
                  THEN FetchLoop(pl, off + limit, ItemLoop(results.items, acc),
                                 request_no + 1, fail_at)
                  ELSE [raised |-> FALSE, failed |-> FALSE,
                        tracks |-> ItemLoop(results.items, acc)]

\* one call: whether it raised, whether a request threw, the list returned
fetch_playlist_tracks(pl, fail_at) == FetchLoop(pl, 0, <<>>, 1, fail_at)

playlist_json_exists(fs, playlist_name, output_dir) ==
    os_path_exists(fs, get_playlist_json_path(playlist_name, output_dir))

\* the loop of export_playlists: the files and the paths after it
RECURSIVE ExportLoop(_, _, _, _, _, _)
ExportLoop(fs, playlists, i, acc, output_dir, skip_existing) ==
    IF i > Len(playlists) THEN [files |-> fs, exported_files |-> acc]
    ELSE LET r == export_playlist_to_json(fs, playlists[i], output_dir, skip_existing)
         IN  ExportLoop(r.files, playlists, i + 1,
                        IF r.result.none THEN acc ELSE Append(acc, r.result.value),
                        output_dir, skip_existing)

export_playlists(fs, playlists, output_dir, skip_existing) ==
    ExportLoop(fs, playlists, 1, <<>>, output_dir, skip_existing)

----------------------------------------------------------------------------
(* Scenario: one run of the export script, from the list of the user's     *)
(* playlists on.                                                           *)

\* the playlists of the user: two names sanitize to the same file name,
\* one playlist has more tracks than a page
UserPlaylists ==
    { [id |-> 1, name |-> <<"a">>,           total |-> 101],
      [id |-> 2, name |-> <<"/", "a", " ">>, total |-> 1],
      [id |-> 3, name |-> <<"b">>,           total |-> 0] }

DistinctIds(pls) == \A i, j \in DOMAIN pls : pls[i].id = pls[j].id => i = j

\* the requests of one fetch that may throw
FailingRequests == {None, Some(1), Some(2)}

ScriptPaths ==
    { os_path_join(OutputDir, <<"a">> \o JsonSuffix),
      os_path_join(OutputDir, <<"b">> \o JsonSuffix) }

InitScript ==
    /\ pc = "fetch_loop"
    /\ playlists_data \in {pls \in SeqsUpTo(UserPlaylists, MaxPlaylists) :
                              DistinctIds(pls)}
    /\ script_index = 1
    /\ playlists_with_tracks = <<>>
    /\ skipped_count = 0
    /\ fetch_failures = {}
    /\ reported_errors = {}
    /\ exported_files = <<>>
    /\ \E present \in SUBSET ScriptPaths : files = [p \in present |-> <<0>>]
    /\ files_before = <<>> /\ export_call = <<>>
    /\ export_result = <<>> /\ export_calls = 0
    /\ IdleTheme /\ IdleLoad /\ IdleSynFile /\ IdleFetch

\* a pass of the first loop for a playlist whose JSON file exists
SkipExisting ==
    /\ pc = "fetch_loop"
    /\ script_index <= Len(playlists_data)
    /\ playlist_json_exists(files, playlists_data[script_index].name, OutputDir)
    /\ skipped_count' = skipped_count + 1
    /\ script_index' = script_index + 1
    /\ UNCHANGED <<pc, playlists_data, playlists_with_tracks, fetch_failures,
                   reported_errors, exported_files,
                   themeVars, loadVars, synFileVars, fetchVars, exportVars>>

\* a pass of the first loop for a playlist that is fetched
FetchForExport ==
    /\ pc = "fetch_loop"
    /\ script_index <= Len(playlists_data)
    /\ LET pl == playlists_data[script_index]
       IN  /\ ~playlist_json_exists(files, pl.name, OutputDir)
           /\ \E fail_at \in FailingRequests :
                 LET r == fetch_playlist_tracks([total |-> pl.total, deleted |-> {}],
                                                fail_at)
                 IN  /\ fetch_failures' = IF r.failed THEN fetch_failures \cup {pl.id}
                                          ELSE fetch_failures
                     /\ IF r.raised
                        THEN /\ reported_errors' = reported_errors \cup {pl.id}
                             /\ UNCHANGED playlists_with_tracks
                        ELSE /\ playlists_with_tracks' =
                                   Append(playlists_with_tracks,
                                          [id |-> pl.id, name |-> pl.name,
                                           tracks |-> r.tracks])
                             /\ UNCHANGED reported_errors
    /\ script_index' = script_index + 1
    /\ UNCHANGED <<pc, playlists_data, skipped_count, exported_files,
                   themeVars, loadVars, synFileVars, fetchVars, exportVars>>

\* after the first loop: export_playlists on the playlists fetched
ExportFetched ==
    /\ pc = "fetch_loop"
    /\ script_index > Len(playlists_data)
    /\ IF playlists_with_tracks # <<>>
       THEN LET r == export_playlists(files, playlists_with_tracks, OutputDir, TRUE)
            IN  files' = r.files /\ exported_files' = r.exported_files
       ELSE UNCHANGED <<files, exported_files>>
    /\ pc' = "done"
    /\ UNCHANGED <<playlists_data, script_index, playlists_with_tracks, skipped_count,
                   fetch_failures, reported_errors,
                   files_before, export_call, export_result, export_calls,
                   themeVars, loadVars, synFileVars, fetchVars>>

NextScript == SkipExisting \/ FetchForExport \/ ExportFetched

SpecScript == InitScript /\ [][NextScript]_vars

----------------------------------------------------------------------------
(* Properties.                                                             *)

\* the sum of f[x] over the x in S
RECURSIVE SumOf(_, _)
SumOf(f, S) ==
    IF S = {} THEN 0
    ELSE LET x == CHOOSE y \in S : TRUE
         IN  f[x] + SumOf(f, S \ {x})

\* what one term is worth in one field of weight w
Contribution(term, field_value, w) ==
    IF field_value = <<>> THEN 0
    ELSE IF WordBoundarySearch(term, LowerStr(field_value)) THEN 2 * w
    ELSE IF SubstringIn(term, LowerStr(field_value)) THEN w
    ELSE 0

\* the sum over the three fields and over the terms
ExpectedScore(trk, terms, weight) ==
    SumOf([p \in Fields \X terms |-> Contribution(p[2], Get(trk, p[1]), weight[p[1]])],
          Fields \X terms)

\* the weights argument as a mapping from its keys
WeightOf(multipliers_arg) ==
    LET items == IF multipliers_arg.none THEN DefaultMultipliers
                 ELSE multipliers_arg.value
    IN  [f \in {items[i][1] : i \in DOMAIN items} |->
            (CHOOSE it \in Elems(items) : it[1] = f)[2]]

DefaultWeight == WeightOf(None)

\* the entries of the returned list that are about keyword k
EntriesOf(k) == {i \in DOMAIN matches : matches[i][1] = k}

\* C1: the result of find_matching_tracks is ordered by score non-increasing,
\* and adjacent results of equal score by lowercased name non-decreasing.
C1_RankedByScoreThenName ==
    pc # "start" =>
        \A i \in 1..(Len(matching_tracks) - 1) :
            LET x == matching_tracks[i]
                y == matching_tracks[i + 1]
            IN  /\ x.match_details.score >= y.match_details.score
                /\ x.match_details.score = y.match_details.score
                     => StrLeq(LowerStr(Get(x.track, "name")),
                               LowerStr(Get(y.track, "name")))

\* three results, a score tie between the names "a" and "B" (which compare the
\* other way round before lowercasing) and a lower score after it
C1_Witness ==
    /\ pc = "returned"
    /\ Len(matching_tracks) = 3
    /\ matching_tracks[1].match_details.score = matching_tracks[2].match_details.score
    /\ matching_tracks[2].match_details.score > matching_tracks[3].match_details.score
    /\ Get(matching_tracks[1].track, "name") = <<"a">>
    /\ Get(matching_tracks[2].track, "name") = <<"B">>

\* C2: the result holds exactly the input tracks whose score is >= min_score,
\* each input occurrence once, with no limit on their number.
C2_ExactlyTheTracksAtOrAboveMinScore ==
    pc # "start" =>
        LET terms == ExpandedKeywords(keywords, synonyms)
            kept  == {i \in DOMAIN tracks :
                         ExpectedScore(tracks[i], terms, DefaultWeight) >= min_score}
        IN  /\ {matching_tracks[j].input_index : j \in DOMAIN matching_tracks} = kept
            /\ Len(matching_tracks) = Cardinality(kept)
            /\ \A j \in DOMAIN matching_tracks :
                   matching_tracks[j].track = tracks[matching_tracks[j].input_index]

\* the same track given twice and kept twice, another one dropped, and a track
\* whose score is exactly min_score kept
C2_Witness ==
    /\ pc = "returned"
    /\ Len(tracks) = 3 /\ Len(matching_tracks) = 2
    /\ matching_tracks[1].track = matching_tracks[2].track
    /\ min_score > 0
    /\ matching_tracks[1].match_details.score = min_score

\* C3: with weights for name, artist and album, score_track returns the sum over
\* the three fields and over the terms of 2 x weight for a full-word entry and
\* 1 x weight for a substring entry, once per field and without a cap.
C3_ScoreIsWeightedSum ==
    (pc = "returned" /\ DOMAIN WeightOf(location_multipliers) = Fields) =>
        /\ ~scored.raised
        /\ scored.score = ExpectedScore(track, keywords, WeightOf(location_multipliers))
        /\ scored.match_details.score = scored.score

\* the default weights, a full-word match in name and in album: 2x3 + 2x1 = 8
C3_Witness ==
    /\ pc = "returned"
    /\ location_multipliers = None
    /\ keywords = {<<"a">>}
    /\ Get(track, "name") = <<"a">> /\ Get(track, "album") = <<"a">>
    /\ Get(track, "artist") = <<>>
    /\ scored.score = 8

\* C4: find_matches_in_text returns at most one entry per term: (term, TRUE) if
\* the full-word search finds it, else (term, FALSE) if it is a substring, else
\* none; a term found both ways is recorded as a full-word match only.
C4_OneEntryPerTerm ==
    pc = "returned" =>
        /\ \A i \in DOMAIN matches : matches[i][1] \in keywords
        /\ \A k \in keywords :
              LET full == text # <<>> /\ WordBoundarySearch(k, LowerStr(text))
                  sub  == text # <<>> /\ SubstringIn(k, LowerStr(text))
              IN  /\ Cardinality(EntriesOf(k)) <= 1
                  /\ full => \E i \in EntriesOf(k) : matches[i][2] = TRUE
                  /\ (~full /\ sub) => \E i \in EntriesOf(k) : matches[i][2] = FALSE
                  /\ (~full /\ ~sub) => EntriesOf(k) = {}

\* one term found both ways and recorded once, one found as a substring only
C4_Witness ==
    /\ pc = "returned"
    /\ keywords = {<<"a">>, <<"b">>, <<"a", "b">>}
    /\ text = <<"a", "b", "-">>
    /\ Len(matches) = 3
    /\ \E i \in DOMAIN matches : matches[i] = <<<<"a", "b">>, TRUE>>
    /\ \E i \in DOMAIN matches : matches[i] = <<<<"a">>, FALSE>>

\* an occurrence of term in txt whose neighbours are string edges or
\* non-alphanumeric characters
BoundedByNonAlphanumerics(term, txt) ==
    \E i \in 1..(Len(txt) + 1) :
        /\ LiteralAt(term, txt, i)
        /\ (i = 1 \/ ~IsAlnum(txt[i - 1]))
        /\ (i + Len(term) > Len(txt) \/ ~IsAlnum(txt[i + Len(term)]))

\* C5: a term is classified as a full-word match exactly when the text has an
\* occurrence of it whose preceding and following characters are each a string
\* edge or a non-alphanumeric character.
C5_FullWordIffBoundedByNonAlphanumerics ==
    pc = "returned" =>
        \A k \in keywords :
            (\E i \in DOMAIN matches : matches[i] = <<k, TRUE>>)
                <=> BoundedByNonAlphanumerics(k, text)

\* C6: whatever keys the weights mapping has, score_track does not fail and
\* scores the three fields name, artist and album only.
C6_ExtraWeightKeysAreIgnored ==
    pc = "returned" =>
        /\ ~scored.raised
        /\ scored.score = ExpectedScore(track, keywords, WeightOf(location_multipliers))

\* C7: expand(K, S) is the lowercased keywords together with the lowercased
\* synonyms of every keyword whose lowercase form is a key of S, and no more.
C7_ExpansionIsOneHop ==
    pc # "start" =>
        expanded =
            {LowerStr(k) : k \in keywords}
            \cup UNION {{LowerStr(s) : s \in Elems(synonyms[LowerStr(k)])} :
                          k \in {q \in keywords : LowerStr(q) \in DOMAIN synonyms}}

\* a keyword that is a key only once lowercased, a synonym that is itself a key
\* and whose own synonyms are not pulled in
C7_Witness ==
    /\ pc = "returned"
    /\ keywords = {<<"B">>}
    /\ DOMAIN synonyms = {<<"a">>, <<"b">>}
    /\ synonyms[<<"b">>] = <<<<"a">>>>
    /\ synonyms[<<"a">>] = <<<<"a", "b">>>>
    /\ expanded = {<<"b">>, <<"a">>}

\* every string of every synonym list of S
ListedSynonyms == UNION {Elems(synonyms[k]) : k \in DOMAIN synonyms}

\* C8 as stated: expanding twice gives a superset, and the same set whenever no
\* synonym list of S contains a string that is also a key of S.
C8_SecondPassIsNoOpIfNoSynonymIsAKey ==
    pc = "returned_twice" =>
        /\ expanded \subseteq expanded_twice
        /\ (ListedSynonyms \cap DOMAIN synonyms = {}) => expanded_twice = expanded

\* C8, amended: expanding twice gives a superset, and the same set whenever no
\* synonym list of S contains a string whose lowercase form is a key of S.
C8_SecondPassIsNoOpIfNoLoweredSynonymIsAKey ==
    pc = "returned_twice" =>
        /\ expanded \subseteq expanded_twice
        /\ ({LowerStr(s) : s \in ListedSynonyms} \cap DOMAIN synonyms = {})
              => expanded_twice = expanded

\* the first pass added a synonym, none of the listed synonyms is a key even
\* when lowercased, and the second pass has run
C8_Witness ==
    /\ pc = "returned_twice"
    /\ {LowerStr(s) : s \in ListedSynonyms} \cap DOMAIN synonyms = {}
    /\ expanded # {LowerStr(k) : k \in keywords}
    /\ \E s \in ListedSynonyms : s # LowerStr(s)

\* what C9 compares of a result: the tracks in order, with their scores,
\* matches and full_word_matches
Compared(result) ==
    [j \in DOMAIN result |->
        [ track             |-> result[j].track,
          input_index       |-> result[j].input_index,
          score             |-> result[j].match_details.score,
          matches           |-> result[j].match_details.matches,
          full_word_matches |-> result[j].match_details.full_word_matches ]]

\* C9: two calls with the same arguments return the same tracks in the same
\* order with the same scores, matches and full_word_matches, whichever order
\* each call iterates the term set in.
C9_IndependentOfIterationOrder ==
    pc = "returned_twice" => Compared(matching_tracks) = Compared(matching_tracks_2)

\* two calls that iterated the terms in different orders (their locations
\* lists differ) and returned at least two tracks
C9_Witness ==
    /\ pc = "returned_twice"
    /\ Len(matching_tracks) >= 2
    /\ matching_tracks # matching_tracks_2

\* no term occurs in any field of any track of the corpus
NoTrackMatches ==
    \A i \in DOMAIN tracks :
        \A f \in Fields :
            \A term \in ExpandedKeywords(keywords, synonyms) :
                ~SubstringIn(term, LowerStr(Get(tracks[i], f)))

\* C10: when no track matches any term, or the corpus is empty, the result is
\* empty for every min_score, 0 included.
C10_NoMatchesGiveEmptyResult ==
    (pc # "start" /\ NoTrackMatches) => matching_tracks = <<>>

\* the score of a track counted over the fields it has, and over no other
PresentScore(trk, terms) ==
    LET present == (DOMAIN trk) \cap Fields
    IN  SumOf([p \in present \X terms |->
                  Contribution(p[2], trk[p[1]], DefaultWeight[p[1]])],
              present \X terms)

\* C13: tracks that lack any of name, artist and album do not make the ranking
\* fail: an absent field adds nothing to the score and has no entry in
\* locations, and every track is scored from its own fields alone.
C13_MissingFieldsCountForNothing ==
    pc = "returned" =>
        LET terms == ExpandedKeywords(keywords, synonyms)
        IN  /\ \A j \in DOMAIN matching_tracks :
                  LET e == matching_tracks[j]
                  IN  /\ DOMAIN e.match_details.locations \subseteq DOMAIN e.track
                      /\ e.match_details.score = PresentScore(e.track, terms)
            /\ Len(matching_tracks) =
                  Cardinality({i \in DOMAIN tracks :
                                  PresentScore(tracks[i], terms) >= min_score})

\* a corpus of three tracks, one with no name, one with a name only and one
\* with all three fields, all of them ranked, the nameless one with a match
C13_Witness ==
    /\ pc = "returned"
    /\ Len(tracks) = 3 /\ Len(matching_tracks) = 3
    /\ \E i \in DOMAIN tracks : Fields \subseteq DOMAIN tracks[i]
    /\ \E i \in DOMAIN tracks : DOMAIN tracks[i] = {"name"}
    /\ \E j \in DOMAIN matching_tracks :
          /\ "name" \notin DOMAIN matching_tracks[j].track
          /\ matching_tracks[j].match_details.score > 0
    /\ <<"a">> \in ExpandedKeywords(keywords, synonyms)

\* the terms of a list, without duplicates
NoDuplicates(seq) == \A i, j \in DOMAIN seq : seq[i] = seq[j] => i = j

\* a list of strings in strictly increasing order
StrictlySorted(seq) == \A i \in 1..(Len(seq) - 1) : StrLess(seq[i], seq[i + 1])

\* C14: in every MatchDetails of score_track, locations has a key only for the
\* fields with a match and lists each matched term once; matches is the sorted
\* duplicate-free union of the locations lists; full_word_matches is sorted, a
\* subset of matches, and holds the terms that are a full word in some field.
C14_MatchDetailsAreConsistent ==
    (pc = "returned" /\ ~scored.raised) =>
        LET d == scored.match_details
        IN  /\ DOMAIN d.locations \subseteq Fields
            /\ \A f \in DOMAIN d.locations :
                  /\ d.locations[f] # <<>>
                  /\ NoDuplicates(d.locations[f])
                  /\ Elems(d.locations[f]) =
                        {k \in keywords : SubstringIn(k, LowerStr(Get(track, f)))}
            /\ \A f \in Fields \ DOMAIN d.locations :
                  \A k \in keywords : ~SubstringIn(k, LowerStr(Get(track, f)))
            /\ StrictlySorted(d.matches)
            /\ Elems(d.matches) = UNION {Elems(d.locations[f]) : f \in DOMAIN d.locations}
            /\ StrictlySorted(d.full_word_matches)
            /\ Elems(d.full_word_matches) \subseteq Elems(d.matches)
            /\ Elems(d.full_word_matches) =
                  {k \in keywords :
                      \E f \in Fields : Get(track, f) # <<>> /\
                          WordBoundarySearch(k, LowerStr(Get(track, f)))}

\* all three fields present, no match in the album, two terms in the name, and
\* the term "b", a substring of the name, counted as a full word for the artist
C14_Witness ==
    /\ pc = "returned" /\ ~scored.raised
    /\ keywords = {<<"b">>, <<"a", "b">>, <<"-", "a">>}
    /\ Get(track, "name") = <<"a", "b">>
    /\ Get(track, "artist") = <<"B", "-", "a">>
    /\ Get(track, "album") = <<"_", "a">>
    /\ DOMAIN scored.match_details.locations = {"name", "artist"}
    /\ Len(scored.match_details.locations["name"]) = 2
    /\ Len(scored.match_details.matches) = 3
    /\ <<"b">> \in Elems(scored.match_details.full_word_matches)

\* the effective terms as the claim states them
ClaimedTerms(kws, synonyms_arg) ==
    IF synonyms_arg.none THEN {LowerStr(k) : k \in kws}
    ELSE {LowerStr(k) : k \in kws}
         \cup UNION {{LowerStr(s) : s \in Elems(synonyms_arg.value[LowerStr(k)])} :
                       k \in {q \in kws : LowerStr(q) \in DOMAIN synonyms_arg.value}}

\* keyword sets that differ from kws in letter case only
CaseVariants(kws) ==
    {v \in SUBSET (kws \cup {LowerStr(k) : k \in kws}) :
        {LowerStr(k) : k \in v} = {LowerStr(k) : k \in kws}}

\* the result of one more call, on other keywords or another synonyms argument
ResultFor(kws, synonyms_arg) ==
    Compared(find_matching_tracks(
        tracks, CHOOSE o \in Orders(ExpandedKeywords(kws, synonyms_arg)) : TRUE,
        min_score))

\* C15: the tracks are scored against expand(keywords, synonyms) when a map is
\* given and against the lowercased keywords otherwise; no map and an empty map
\* give the same result, and so do keywords that differ in letter case only.
C15_ScoredAgainstEffectiveTerms ==
    pc = "returned" =>
        /\ \A j \in DOMAIN matching_tracks :
              LET e == matching_tracks[j]
                  terms == ClaimedTerms(keywords, synonyms)
              IN  /\ e.match_details.score = ExpectedScore(e.track, terms, DefaultWeight)
                  /\ Elems(e.match_details.matches) =
                        {k \in terms : \E f \in Fields :
                            SubstringIn(k, LowerStr(Get(e.track, f)))}
        /\ (synonyms.none \/ DOMAIN synonyms.value = {}) =>
              /\ Compared(matching_tracks) = ResultFor(keywords, None)
              /\ Compared(matching_tracks) = ResultFor(keywords, Some(<<>>))
        /\ \A v \in CaseVariants(keywords) :
              Compared(matching_tracks) = ResultFor(v, synonyms)

\* an uppercase keyword, a synonym map that adds a term, and a track whose
\* matches hold both the lowercased keyword and the added term
C15_Witness ==
    /\ pc = "returned"
    /\ keywords = {<<"a">>, <<"B">>}
    /\ ~synonyms.none /\ DOMAIN synonyms.value # {}
    /\ \E j \in DOMAIN matching_tracks :
          {<<"b">>, <<"a", "b">>} \subseteq Elems(matching_tracks[j].match_details.matches)

\* C16: every MatchDetails of find_matching_tracks has a score >= 0, and the
\* score is 0 exactly when matches is empty.
C16_ScoreIsZeroIffNoMatch ==
    pc = "returned" =>
        \A j \in DOMAIN matching_tracks :
            LET d == matching_tracks[j].match_details
            IN  /\ d.score \in Nat
                /\ d.score = 0 <=> d.matches = <<>>

\* a result with a track of score 0 and a track matched as a substring only
C16_Witness ==
    /\ pc = "returned"
    /\ \E j \in DOMAIN matching_tracks : matching_tracks[j].match_details.score = 0
    /\ \E j \in DOMAIN matching_tracks :
          /\ matching_tracks[j].match_details.matches # <<>>
          /\ matching_tracks[j].match_details.full_word_matches = <<>>

----------------------------------------------------------------------------
(* Properties of load_tracks_from_json_files.                              *)

\* the content is a JSON array
IsArray(c) == c.readable /\ c.parses /\ c.value.type = "list"

\* the content is a JSON array of objects: a valid playlist file
IsValidContent(c) ==
    /\ IsArray(c)
    /\ \A j \in DOMAIN c.value.items : c.value.items[j].type = "object"

\* the content is invalid JSON, unreadable, or JSON that is not an array
IsBadContent(c) == ~IsArray(c)

\* the entry is a *.json file directly inside the directory
IsJsonFile(e) == ~e.is_dir /\ MatchesJsonPattern(e.name)

IsValidFile(e) == IsJsonFile(e) /\ IsValidContent(e.content)
IsBadFile(e)   == IsJsonFile(e) /\ IsBadContent(e.content)

\* a *.json file holding an array with an element that is not an object
IsMixedFile(e) ==
    IsJsonFile(e) /\ IsArray(e.content) /\ ~IsValidContent(e.content)

\* the record with a playlist field set to tag, whatever it had
WithPlaylist(record, tag) ==
    [f \in DOMAIN record \cup {"playlist"} |->
        IF f \in DOMAIN record \ {"playlist"} THEN record[f] ELSE tag]

\* the positions of the result that carry the tag
TaggedPositions(tag) ==
    {k \in DOMAIN loaded.tracks : loaded.tracks[k]["playlist"] = tag}

\* C11: the load never raises; every bad file (invalid JSON, unreadable, or
\* not a list at top level) contributes nothing, and every track of every
\* valid file is in the result, as many times as the file has it.
C11_BadFilesAreSkipped ==
    pc = "returned" =>
        /\ loaded.raised = FALSE
        /\ \A i \in DOMAIN data_dir.entries :
              LET e   == data_dir.entries[i]
                  tag == Stem(e.name)
              IN  /\ IsBadFile(e) => TaggedPositions(tag) = {}
                  /\ IsValidFile(e) =>
                       /\ Cardinality(TaggedPositions(tag))
                              = Len(e.content.value.items)
                       /\ \A j \in DOMAIN e.content.value.items :
                              \E k \in TaggedPositions(tag) :
                                  loaded.tracks[k]
                                      = WithPlaylist(e.content.value.items[j].fields, tag)

\* a directory with an unreadable file, a file that is not JSON or not a
\* list, and after them a valid file whose tracks are returned
C11_Witness ==
    /\ pc = "returned"
    /\ loaded.raised = FALSE
    /\ Len(data_dir.entries) = 3
    /\ IsJsonFile(data_dir.entries[1]) /\ ~data_dir.entries[1].content.readable
    /\ IsBadFile(data_dir.entries[2]) /\ data_dir.entries[2].content.readable
    /\ IsValidFile(data_dir.entries[3])
    /\ Len(loaded.tracks) = 2

\* the name without its last five characters
WithoutJsonSuffix(filename) ==
    SubSeq(filename, 1, Len(filename) - Len(JsonSuffix))

\* the tag of a file: its name without the extension, except that the name
\* ".json" is kept whole when keep_bare
PlaylistTag(filename, keep_bare) ==
    IF keep_bare /\ filename = JsonSuffix THEN filename
    ELSE WithoutJsonSuffix(filename)

\* the tracks of the valid files, in listing order and then in-file order
RECURSIVE ConcatenatedTracks(_, _)
ConcatenatedTracks(entries, keep_bare) ==
    IF entries = <<>> THEN <<>>
    ELSE LET e == Head(entries)
         IN  (IF IsValidFile(e)
              THEN [j \in DOMAIN e.content.value.items |->
                       WithPlaylist(e.content.value.items[j].fields,
                                    PlaylistTag(e.name, keep_bare))]
              ELSE <<>>)
             \o ConcatenatedTracks(Tail(entries), keep_bare)

NoMixedFile ==
    \A i \in DOMAIN data_dir.entries : ~IsMixedFile(data_dir.entries[i])

NoJsonFileInside ==
    \A i \in DOMAIN data_dir.entries : ~IsJsonFile(data_dir.entries[i])

\* C18: with the directory missing, or without a *.json file directly
\* inside it, the load returns an empty list and does not raise.
C18_NothingToLoadGivesEmptyList ==
    (pc = "returned" /\ (~data_dir.exists \/ NoJsonFileInside)) =>
        loaded = [raised |-> FALSE, tracks |-> <<>>]

\* a directory whose only playlist file is inside a subdirectory
C18_Witness ==
    /\ pc = "returned"
    /\ data_dir.exists
    /\ NoJsonFileInside
    /\ \E i \in DOMAIN data_dir.entries :
          /\ data_dir.entries[i].is_dir
          /\ \E j \in DOMAIN data_dir.entries[i].children :
                 IsValidFile(data_dir.entries[i].children[j])
    /\ \E i \in DOMAIN data_dir.entries : ~data_dir.entries[i].is_dir
    /\ loaded.tracks = <<>>

\* the call on a directory that does not exist
C18_WitnessMissing ==
    pc = "returned" /\ ~data_dir.exists /\ loaded.tracks = <<>>

----------------------------------------------------------------------------
(* Properties of load_synonyms.                                            *)

\* the file parses to an object
IsObjectFile ==
    /\ synonym_file.exists
    /\ synonym_file.content.readable
    /\ synonym_file.content.parses
    /\ synonym_file.content.value.type = "object"

\* the file exists and is invalid JSON, or JSON that is not an object
IsMalformedFile ==
    /\ synonym_file.exists
    /\ synonym_file.content.readable
    /\ ~synonym_file.content.parses \/ synonym_file.content.value.type # "object"

IsListOfStrings(v) ==
    v.type = "list" /\ \A j \in DOMAIN v.items : v.items[j].type = "string"

\* every list of the object holds strings only
OnlyStringsInLists(pairs) ==
    \A i \in DOMAIN pairs : pairs[i][2].type = "list" => IsListOfStrings(pairs[i][2])

\* the synonym list a value stands for
LoweredList(v) ==
    IF IsListOfStrings(v) THEN [j \in DOMAIN v.items |-> LowerStr(v.items[j].value)]
    ELSE <<>>

\* C17 as stated: every key of the file is in the map in lowercase, with the
\* empty list if its value is not a list and with its lowercased list
\* otherwise; a malformed file gives the empty map; the call never raises.
C17_EveryKeyKeepsItsOwnList ==
    pc = "returned" =>
        /\ loaded_synonyms.raised = FALSE
        /\ IsMalformedFile => loaded_synonyms.synonyms = <<>>
        /\ (IsObjectFile /\ OnlyStringsInLists(synonym_file.content.value.pairs)) =>
              LET pairs == synonym_file.content.value.pairs
              IN  \A i \in DOMAIN pairs :
                      /\ LowerStr(pairs[i][1]) \in DOMAIN loaded_synonyms.synonyms
                      /\ loaded_synonyms.synonyms[LowerStr(pairs[i][1])]
                             = LoweredList(pairs[i][2])

\* the last pair of the object whose key lowercases to k
LastPairFor(pairs, k) ==
    LET at == {i \in DOMAIN pairs : LowerStr(pairs[i][1]) = k}
    IN  pairs[CHOOSE i \in at : \A j \in at : j <= i]

\* C17 amended: the keys of the map are the lowercased keys of the file;
\* each maps to the lowercased list of the last key of the file that
\* lowercases to it, or to the empty list if that key's value is not a
\* list; a file that is missing, unreadable, invalid JSON, not an object, or
\* that has a list with an element that is not a string gives the empty
\* map; the call never raises.
C17_LastKeyOfEachLoweredKeyDecides ==
    pc = "returned" =>
        /\ loaded_synonyms.raised = FALSE
        /\ IF IsObjectFile /\ OnlyStringsInLists(synonym_file.content.value.pairs)
           THEN LET pairs == synonym_file.content.value.pairs
                IN  /\ DOMAIN loaded_synonyms.synonyms
                           = {LowerStr(pairs[i][1]) : i \in DOMAIN pairs}
                    /\ \A k \in DOMAIN loaded_synonyms.synonyms :
                           loaded_synonyms.synonyms[k]
                               = LoweredList(LastPairFor(pairs, k)[2])
           ELSE loaded_synonyms.synonyms = <<>>

\* a file with the keys "B" and "b", one with a list holding an uppercase
\* string and one with a number, and a third key that keeps its list
C17_Witness ==
    /\ pc = "returned"
    /\ IsObjectFile
    /\ LET pairs == synonym_file.content.value.pairs
       IN  /\ Len(pairs) = 3
           /\ pairs[1] = <<<<"B">>, JList(<<JString(<<"B">>)>>)>>
           /\ pairs[2][1] = <<"a">> /\ pairs[2][2].type = "list"
           /\ pairs[2][2].items # <<>> /\ IsListOfStrings(pairs[2][2])
           /\ pairs[3] = <<<<"b">>, JNumber>>
    /\ DOMAIN loaded_synonyms.synonyms = {<<"a">>, <<"b">>}
    /\ loaded_synonyms.synonyms[<<"b">>] = <<>>
    /\ loaded_synonyms.synonyms[<<"a">>] = <<<<"a", "b">>, <<"b">>>>

----------------------------------------------------------------------------
(* Properties of fetch_playlist_tracks.                                    *)

\* the positions of the playlist whose track is not null, in order
LivePositions(pl) ==
    SelectSeq([i \in 1..pl.total |-> i], LAMBDA i : i \notin pl.deleted)

\* the number of pages of 100 items that hold n items
PagesOf(n) == IF n = 0 THEN 1 ELSE (n + 99) \div 100

\* C19: the requests go to the offsets 0, 100, 200, ... in that order; a
\* fetch served without error makes one request per page of the playlist
\* and returns, in playlist order, the details of the items whose track is
\* not null and of no others: N tracks for N tracks not deleted.
C19_FetchesEveryLiveTrackInOrder ==
    /\ \A i \in DOMAIN requested : requested[i] = 100 * (i - 1)
    /\ (pc = "returned" /\ ~request_failed) =>
          LET live == LivePositions(playlist)
          IN  /\ Len(requested) = PagesOf(playlist.total)
              /\ Len(fetched) = playlist.total - Cardinality(playlist.deleted)
              /\ Len(fetched) = Len(live)
              /\ \A k \in DOMAIN fetched : fetched[k]["name"] = live[k]

\* a playlist of three pages with deleted tracks on two of them, fetched
\* without error
C19_Witness ==
    /\ pc = "returned"
    /\ ~request_failed
    /\ playlist.total > 200
    /\ {2, 101} \subseteq playlist.deleted
    /\ requested = <<0, 100, 200>>
    /\ Len(fetched) = playlist.total - Cardinality(playlist.deleted)

----------------------------------------------------------------------------
(* Properties of export_playlist_to_json.                                  *)

\* the sanitized name of the playlist of the last call
CalledName ==
    sanitize_playlist_name(IF "name" \in DOMAIN export_call.playlist
                           THEN export_call.playlist["name"]
                           ELSE UnknownName)

\* name.json for k = 0 and name_k.json for k > 0, in the output directory
CandidatePath(name, k) ==
    os_path_join(OutputDir,
                 name \o (IF k = 0 THEN <<>> ELSE <<"_">> \o Decimal(k)) \o JsonSuffix)

\* the first candidate that did not exist before the last call
FirstFreePath(name) ==
    LET free == {k \in 0..Cardinality(DOMAIN files_before) :
                    CandidatePath(name, k) \notin DOMAIN files_before}
    IN  CandidatePath(name, CHOOSE k \in free : \A j \in free : k <= j)

\* C20: after every call, every file that existed before it is there with
\* the content it had.  With skip_existing and name.json present the call
\* returns None and the files are as before; otherwise it returns the first
\* path among name.json, name_1.json, ... that did not exist, and that file
\* now holds the playlist's tracks.
C20_ExistingFilesAreNeverOverwritten ==
    export_calls > 0 =>
        LET name  == CalledName
            first == FirstFreePath(name)
        IN  /\ \A p \in DOMAIN files_before :
                  p \in DOMAIN files /\ files[p] = files_before[p]
            /\ IF export_call.skip_existing
                  /\ CandidatePath(name, 0) \in DOMAIN files_before
               THEN export_result = None /\ files = files_before
               ELSE /\ export_result = Some(first)
                    /\ DOMAIN files = DOMAIN files_before \cup {first}
                    /\ files[first] = export_call.playlist["tracks"]

\* a second call without skip_existing whose name.json was written by the
\* first call and whose name_1.json was there from the start: it writes
\* name_2.json
C20_Witness ==
    /\ export_calls = 2
    /\ ~export_call.skip_existing
    /\ LET name == CalledName
       IN  /\ CandidatePath(name, 0) \in DOMAIN files_before
           /\ files_before[CandidatePath(name, 0)] # <<0>>
           /\ CandidatePath(name, 1) \in DOMAIN files_before
           /\ files_before[CandidatePath(name, 1)] = <<0>>
           /\ export_result = Some(CandidatePath(name, 2))
           /\ files[CandidatePath(name, 2)] = export_call.playlist["tracks"]

\* a call with skip_existing whose name.json exists
C20_WitnessSkipped ==
    /\ export_calls > 0
    /\ export_call.skip_existing
    /\ CandidatePath(CalledName, 0) \in DOMAIN files_before
    /\ export_result = None

----------------------------------------------------------------------------
(* Properties of the export script.                                        *)

\* C21: at the end of a run, every playlist that was fetched has a file of
\* its own: export_playlists returned one path per playlist, all different,
\* and the file at the k-th path holds the tracks of the k-th playlist.
C21_EveryFetchedPlaylistIsWritten ==
    pc = "done" =>
        /\ Len(exported_files) = Len(playlists_with_tracks)
        /\ NoDuplicates(exported_files)
        /\ \A k \in DOMAIN exported_files :
              /\ exported_files[k] \in DOMAIN files
              /\ files[exported_files[k]] = playlists_with_tracks[k].tracks

\* C22: at the end of a run, a playlist whose fetch hit an API error was
\* reported as an error, is not among the playlists to export, and no file
\* exists under its name.
C22_FailedFetchIsNotExported ==
    pc = "done" =>
        \A i \in DOMAIN playlists_data :
            playlists_data[i].id \in fetch_failures =>
                /\ playlists_data[i].id \in reported_errors
                /\ \A k \in DOMAIN playlists_with_tracks :
                       playlists_with_tracks[k].id # playlists_data[i].id
                /\ ~playlist_json_exists(files, playlists_data[i].name, OutputDir)

----------------------------------------------------------------------------
(* Properties of the paging functions when a request throws.               *)

\* the number of items on the pages retrieved before the last request
RetrievedBefore(page_size) ==
    LET asked == page_size * (Len(requested) - 1)
    IN  IF asked < playlist.total THEN asked ELSE playlist.total

\* C23: neither function raises; once a request has thrown the function has
\* returned, and what it returned is the items of the pages retrieved before
\* that request, in order: the details of the tracks not deleted for
\* fetch_playlist_tracks, the playlists for get_user_playlists; nothing if
\* the first request threw.
C23_RequestErrorReturnsWhatWasGathered ==
    /\ pc # "raised"
    /\ request_failed => pc \in {"returned", "listed"}
    /\ (request_failed /\ pc = "returned") =>
          LET live == SelectSeq([i \in 1..RetrievedBefore(100) |-> i],
                                LAMBDA i : i \notin playlist.deleted)
          IN  /\ Len(fetched) = Len(live)
              /\ \A k \in DOMAIN fetched : fetched[k]["name"] = live[k]
    /\ (request_failed /\ pc = "listed") =>
          fetched = [k \in 1..RetrievedBefore(50) |-> [id |-> k]]

\* fetch_playlist_tracks whose third request throws after two pages with a
\* deleted track
C23_Witness ==
    /\ pc = "returned"
    /\ request_failed
    /\ requested = <<0, 100, 200>>
    /\ 2 \in playlist.deleted
    /\ Len(fetched) = 200 - Cardinality(playlist.deleted \cap 1..200)

\* get_user_playlists whose second request throws
C23_WitnessPlaylists ==
    /\ pc = "listed"
    /\ request_failed
    /\ requested = <<0, 50>>
    /\ Len(fetched) = 50

\* either function with the first request throwing
C23_WitnessFirstRequest ==
    /\ request_failed
    /\ Len(requested) = 1
    /\ fetched = <<>>

----------------------------------------------------------------------------
(* Atomicity of the load per file.                                         *)

\* the number of elements of the file's list that are objects
ObjectCount(e) ==
    Cardinality({j \in DOMAIN e.content.value.items :
                    e.content.value.items[j].type = "object"})

\* C24: every *.json file of the directory contributes all of its tracks
\* to the result or none of them, also a file whose list has an element that
\* is not an object.
C24_EachFileContributesAllOrNothing ==
    pc = "returned" =>
        \A i \in DOMAIN data_dir.entries :
            LET e == data_dir.entries[i]
                n == Cardinality(TaggedPositions(Stem(e.name)))
            IN  IsJsonFile(e) =>
                    IF IsArray(e.content) THEN n = 0 \/ n = ObjectCount(e)
                    ELSE n = 0


----------------------------------------------------------------------------
(* Order of the results among equal sort keys                              *)

\* two results with the same sort key (-score, name.lower())
SameKey(x, y) ==
    /\ x.match_details.score = y.match_details.score
    /\ NameKey(x) = NameKey(y)

\* C25: results of find_matching_tracks that have equal score and equal
\* lowercased name appear in the order in which their tracks appear in the
\* input list: the sort is stable.
C25_TiesKeepInputOrder ==
    pc = "returned" =>
        \A i, j \in DOMAIN matching_tracks :
            (i < j /\ SameKey(matching_tracks[i], matching_tracks[j]))
                => matching_tracks[i].input_index < matching_tracks[j].input_index

\* two different tracks tie on score and lowercased name, and a track that
\* comes later in the input is sorted in front of both
C25_Witness ==
    /\ pc = "returned"
    /\ \E i, j, k \in DOMAIN matching_tracks :
           /\ i < j /\ j < k
           /\ SameKey(matching_tracks[j], matching_tracks[k])
           /\ matching_tracks[j].track # matching_tracks[k].track
           /\ matching_tracks[j].match_details.score > 0
           /\ matching_tracks[i].input_index > matching_tracks[k].input_index


----------------------------------------------------------------------------
(* The arguments of find_matching_tracks after the call                    *)

\* a step that is a call of find_matching_tracks returning 'result'
RankCallReturns(result) ==
    \/ pc = "start" /\ pc' = "returned" /\ result = matching_tracks'
    \/ pc = "returned" /\ pc' = "returned_twice" /\ result = matching_tracks_2'

----------------------------------------------------------------------------
(* Scores with and without synonyms                                        *)

\* the score of a track for a set of terms, iterated in sorted order
ScoreFor(trk, terms) == score_track(trk, sorted(terms), None).score

\* a corpus that holds every track of the pool once
ComparedCorpus == CHOOSE o \in Orders(RankTrackPool) : TRUE

\* the positions of the corpus that find_matching_tracks returns for a set
\* of effective terms
ReturnedFor(terms, threshold) ==
    LET result == find_matching_tracks(ComparedCorpus, sorted(terms), threshold)
    IN  {result[j].input_index : j \in DOMAIN result}

\* C27: supplying synonyms never lowers a score: for every track, keyword
\* set K and synonym map S, the score for the terms expand(K, S) is at least
\* the score for the lowercased K alone, so that for a fixed min_score every
\* track returned without synonyms is also returned with them.
C27_SynonymsNeverLowerAScore ==
    pc = "returned" =>
        LET alone == ExpandedKeywords(keywords, None)
        IN  /\ \A trk \in RankTrackPool :
                   ScoreFor(trk, expanded) >= ScoreFor(trk, alone)
            /\ \A threshold \in 0..MaxMinScore :
                   ReturnedFor(alone, threshold) \subseteq ReturnedFor(expanded, threshold)

\* an expansion by a non-empty synonym map raises the score of one track,
\* leaves the positive score of another as it is, and brings a track into
\* the result that the keywords alone leave out
C27_Witness ==
    /\ pc = "returned"
    /\ DOMAIN synonyms # {}
    /\ LET alone == ExpandedKeywords(keywords, None)
       IN  /\ \E trk \in RankTrackPool : ScoreFor(trk, expanded) > ScoreFor(trk, alone)
           /\ \E trk \in RankTrackPool :
                  /\ ScoreFor(trk, expanded) = ScoreFor(trk, alone)
                  /\ ScoreFor(trk, alone) > 0
           /\ \E threshold \in 1..MaxMinScore :
                  ReturnedFor(alone, threshold) # ReturnedFor(expanded, threshold)

============================================================================
